---------------------------- MODULE Spec2Model ----------------------------
(***************************************************************************)
(* State-machine model of the speech wrappers of this repository:          *)
(*   - TextToSpeech  (services/web-speech-tts, src/unnamed/part_001)       *)
(*   - SpeechToText  (src/app/services/web-speech-stt.ts)                  *)
(*   - Controls      (src/app/page.tsx)                                    *)
(* The browser objects (speechSynthesis, SpeechRecognition, Audio) are the *)
(* environment: every event they can emit is an action that runs the       *)
(* handler the code has installed for it at that moment.                   *)
(***************************************************************************)
EXTENDS Integers, Sequences, FiniteSets, TLC

(***************************************************************************)
(* Bounds of the model.                                                    *)
(***************************************************************************)
\* number of output sessions (utterances) created in one run
MaxSess == 2

Sessions == 1..MaxSess
\* wrapper 0 is the shared TextToSpeech instance; wrapper s (s > 0) is the
\* instance speakText creates for session s
Wrappers == 0..MaxSess

(***************************************************************************)
(* State of the output side.                                               *)
(***************************************************************************)
VARIABLES
  nSess,            \* sessions created so far
  sKind,            \* "none" | "speak" | "tts" | "voices": which method created session s
  sText,            \* options.text of the call that created session s
  sOptions,         \* options.rate/pitch/volume (in tenths) and options.voice of that call
  uProps,           \* rate, pitch, volume (in tenths) and voice of the utterance of s
  sWrapper,         \* the TextToSpeech instance session s belongs to
  uState,           \* progress of session s and of its utterance:
                    \*   "none"      not created
                    \*   "micro"     textToSpeech: loadVoices resolved, continuation queued
                    \*   "waiting"   textToSpeech: loadVoices waits (voiceschanged / 1 s)
                    \*   "pending"   utterance in the platform queue, not started
                    \*   "speaking"  utterance started
                    \*   "cancelled" removed by synthesis.cancel(), event not yet emitted
                    \*   "done"      terminal event emitted
  queue,            \* speechSynthesis queue: sessions pending or speaking, in order
  paused,           \* speechSynthesis.paused
  voices,           \* speechSynthesis.getVoices().length > 0
  voicesHandler,    \* session whose loadVoices owns synthesis.onvoiceschanged (0: none)
  isSpeaking,       \* TextToSpeech.isSpeaking, per wrapper
  currentUtterance, \* TextToSpeech.currentUtterance, per wrapper (0: null)
  promise,          \* promise returned by textToSpeech:
                    \*   "none" | "pending" | "resolved" | "rejected" | "timeout"
  timer,            \* 30 s safety timeout of session s: "none" | "armed" | "fired"
  timerQ,           \* timers not yet expired, in the order they were set
  lastOp            \* the last output-side step taken: <<name, session, detail>>

ttsVars == <<nSess, sKind, sText, sOptions, uProps, sWrapper, uState, queue, paused, voices, voicesHandler,
             isSpeaking, currentUtterance, promise, timer, timerQ, lastOp>>

(***************************************************************************)
(* State of the input side: the SpeechRecognition object, the SpeechToText *)
(* wrapper around it and the sessions (start calls) made on the wrapper.   *)
(***************************************************************************)
VARIABLES
  nRec,             \* input sessions (start calls) made so far
  rKind,            \* "none" | "stt" (speechToText) | "rec" (startRecognition)
  rPromise,         \* promise returned by the start call: [st, tag, text]
  finalTranscript,  \* closure variable of speechToText, per session
  hasResult,        \* closure variable of speechToText, per session
  rContinuous,      \* the `continuous` option the session was started with
  rAudio,           \* processAudioBlob: "none" | "requested" | "playing" |
                    \*   "endedWait" | "done" | "failed"
  rTimer,           \* 30 s auto-stop timer of session r: "none" | "armed" | "fired"
  rTimerQ,          \* timers of the input side not yet expired, in setting order
  isRecording,      \* SpeechToText.isRecording
  recState,         \* the platform's recognition: "idle" | "starting" |
                    \*   "listening" | "stopping" | "errored"
  recContinuous,    \* recognition.continuous
  recInterim,       \* recognition.interimResults
  hStart, hResult, hError, hEnd,
                    \* recognition.onstart/onresult/onerror/onend: 0 not set,
                    \* r > 0 the closure of session r; the closure made by
                    \* onResult / onError around a callback: -1 around a
                    \* caller's callback, -2 around the callback of Controls
  finalEmitted,     \* the platform has returned a final result since start()
  nResults,         \* result events emitted so far
  stopCalls,        \* recognition.stop() calls since the last start()
  recError,         \* event.error of the error the recognition ended with,
                    \* until its end event ("": none)
  errLog,           \* the error given to the onError callback, until the end
                    \* event ("": none)
  lastEvent,        \* the result event dispatched in this step (<<>>: none)
  cbLog             \* the calls of the onResult callback made in this step:
                    \* <<transcript, isFinal>> each

sttVars == <<nRec, rKind, rPromise, finalTranscript, hasResult, rContinuous, rAudio,
             rTimer, rTimerQ, isRecording, recState, recContinuous, recInterim,
             hStart, hResult, hError, hEnd, finalEmitted, nResults, stopCalls,
             recError, errLog, lastEvent, cbLog>>

(***************************************************************************)
(* State of the controller (Controls, page.tsx).                           *)
(***************************************************************************)
VARIABLES
  text,             \* the text box / displayed transcript, a sequence of characters
  ctlIsRecording,   \* Controls' isRecording state
  alerts,           \* the alert() messages shown so far
  mode,             \* "tts" | "stt"
  isLoading,        \* Controls' isLoading state
  hasTTS,           \* browserSupport.hasTTS
  hasSTT,           \* browserSupport.hasSTT
  initPc,           \* initializeServices: "importTTS" | "importSTT" | "done"
  sttRef,           \* sttRef.current: "fallback" | "real"
  ttsRef,           \* ttsRef.current: "fallback" | "real" (the shared instance 0)
  permWait,         \* startRecording calls awaiting requestMicrophonePermission()
  speakWait,        \* the trimmed texts of the handleTextToSpeech calls that await
                    \* their import of the output service, in call order
  ctlAwait          \* input sessions whose startRecognition promise startRecording awaits

ctlView == <<text, ctlIsRecording, alerts>>

ctlEnv == <<mode, isLoading, hasTTS, hasSTT, initPc, sttRef, ttsRef, permWait, speakWait>>

ctlVars == <<ctlView, ctlEnv, ctlAwait>>

vars == <<ttsVars, sttVars, ctlVars>>

(***************************************************************************)
(* Helpers.                                                                *)
(***************************************************************************)
RECURSIVE Without(_, _)
Without(q, x) ==
  IF q = <<>> THEN <<>>
  ELSE IF Head(q) = x THEN Without(Tail(q), x)
  ELSE <<Head(q)>> \o Without(Tail(q), x)

InSeq(q, x) == \E i \in 1..Len(q) : q[i] = x

\* a microtask (the continuation of `await this.loadVoices()`) runs before
\* any timer or platform event is dispatched
MicrotaskPending == \E s \in Sessions : uState[s] = "micro"

Settled(p) == p \in {"resolved", "rejected", "timeout"}

\* resolve()/reject() of an already settled promise has no effect
Settle(s, outcome) ==
  IF promise[s] = "pending" THEN [promise EXCEPT ![s] = outcome] ELSE promise

(***************************************************************************)
(* speechSynthesis.cancel(): every queued utterance is removed.            *)
(***************************************************************************)
SynthesisCancelStates ==
  [s \in Sessions |-> IF InSeq(queue, s) THEN "cancelled" ELSE uState[s]]

(***************************************************************************)
(* The utterance a call creates from its options.  Rate, pitch and volume  *)
(* are counted in tenths: 10 stands for 1.0.                               *)
(***************************************************************************)
\* `rate = 1, pitch = 1, volume = 1` and no voice ("" stands for undefined)
DefaultOptions == [rate |-> 10, pitch |-> 10, volume |-> 10, voice |-> ""]

\* a new SpeechSynthesisUtterance: rate 1, pitch 1, volume 1, voice null ("")
NewUtterance == [rate |-> 10, pitch |-> 10, volume |-> 10, voice |-> ""]

\* the names of the voices of the platform, once it has loaded them
PlatformVoices == {"Alice", "Bob"}

\* this.synthesis.getVoices()
GetVoices == IF voices THEN PlatformVoices ELSE {}

MathMax(a, b) == IF a >= b THEN a ELSE b
MathMin(a, b) == IF a <= b THEN a ELSE b

Clamp_Unchanged(value, min, max) == value

\* TextToSpeech.clamp
Clamp(value, min, max) == MathMin(MathMax(value, min), max)

GetVoiceByName_Any(name) == name

\* TextToSpeech.getVoiceByName: `voices.find(...) || null` ("" stands for null)
GetVoiceByName(name) == IF name \in GetVoices THEN name ELSE ""

\* the properties speak and textToSpeech set on the utterance
UtteranceOf(o) ==
  [rate   |-> Clamp(o.rate, 1, 100),
   pitch  |-> Clamp(o.pitch, 0, 20),
   volume |-> Clamp(o.volume, 0, 10),
   voice  |-> IF o.voice # "" /\ GetVoiceByName(o.voice) # ""
                THEN GetVoiceByName(o.voice)
                ELSE NewUtterance.voice]

(***************************************************************************)
(* TextToSpeech.stop()                                                     *)
(***************************************************************************)
\* the values of options.text: the empty string and a text to speak
UtterTexts == {<<>>, <<"a">>}

StopCancels(w) == isSpeaking[w]

StopEffect(w) ==
  /\ IF StopCancels(w)
       THEN /\ uState' = SynthesisCancelStates
            /\ queue' = <<>>
            /\ isSpeaking' = [isSpeaking EXCEPT ![w] = FALSE]
            /\ currentUtterance' = [currentUtterance EXCEPT ![w] = 0]
       ELSE UNCHANGED <<uState, queue, isSpeaking, currentUtterance>>
  /\ lastOp' = <<"stop", 0, IF StopCancels(w) THEN "cancel" ELSE "noop">>
  /\ UNCHANGED <<nSess, sKind, sText, sOptions, uProps, sWrapper, paused, voices, voicesHandler,
                 promise, timer, timerQ>>

Stop(w) ==
  /\ w = 0
  /\ StopEffect(w)
  /\ UNCHANGED <<sttVars, ctlVars>>

(***************************************************************************)
(* TextToSpeech.speak(options): stop(), then a new utterance is submitted. *)
(***************************************************************************)
SpeakOnWith(w, s, t, o) ==
  LET cancels == StopCancels(w)
      st1 == IF cancels THEN SynthesisCancelStates ELSE uState
      q1  == IF cancels THEN <<>> ELSE queue
  IN /\ nSess' = s
     /\ sKind' = [sKind EXCEPT ![s] = "speak"]
     /\ sText' = [sText EXCEPT ![s] = t]
     /\ sOptions' = [sOptions EXCEPT ![s] = o]
     /\ uProps' = [uProps EXCEPT ![s] = UtteranceOf(o)]
     /\ sWrapper' = [sWrapper EXCEPT ![s] = w]
     /\ uState' = [st1 EXCEPT ![s] = "pending"]
     /\ queue' = Append(q1, s)
     /\ isSpeaking' = [isSpeaking EXCEPT ![w] = FALSE]
     /\ currentUtterance' = [currentUtterance EXCEPT ![w] = s]
     /\ lastOp' = <<"speak", s, IF cancels THEN "cancel" ELSE "noop">>
     /\ UNCHANGED <<paused, voices, voicesHandler, promise, timer, timerQ>>

\* a call that names the text only: rate, pitch and volume take their defaults
SpeakOn(w, s, t) == SpeakOnWith(w, s, t, DefaultOptions)

\* speak() on the shared instance
Speak(t) ==
  /\ nSess < MaxSess
  /\ SpeakOn(0, nSess + 1, t)
  /\ UNCHANGED <<sttVars, ctlVars>>

\* speakText(options): const tts = new TextToSpeech(); tts.speak(options)
SpeakText(t) ==
  /\ nSess < MaxSess
  /\ SpeakOn(nSess + 1, nSess + 1, t)
  /\ UNCHANGED <<sttVars, ctlVars>>

(***************************************************************************)
(* TextToSpeech.textToSpeech(options), up to `await this.loadVoices()`.    *)
(***************************************************************************)
TextToSpeechWith(t, o) ==
  /\ nSess < MaxSess
  /\ LET s == nSess + 1
     IN /\ nSess' = s
        /\ sKind' = [sKind EXCEPT ![s] = "tts"]
        /\ sText' = [sText EXCEPT ![s] = t]
        /\ sOptions' = [sOptions EXCEPT ![s] = o]
        /\ sWrapper' = [sWrapper EXCEPT ![s] = 0]
        /\ promise' = [promise EXCEPT ![s] = "pending"]
        /\ IF voices
             THEN /\ uState' = [uState EXCEPT ![s] = "micro"]
                  /\ UNCHANGED <<voicesHandler, timerQ>>
             ELSE /\ uState' = [uState EXCEPT ![s] = "waiting"]
                  /\ voicesHandler' = s
                  /\ timerQ' = Append(timerQ, s)
        /\ lastOp' = <<"textToSpeech", s, "call">>
        /\ UNCHANGED <<uProps, queue, paused, voices, isSpeaking, currentUtterance, timer>>
        /\ UNCHANGED <<sttVars, ctlVars>>

TextToSpeech(t) == TextToSpeechWith(t, DefaultOptions)

(***************************************************************************)
(* TextToSpeech.getAvailableVoices(): `await this.loadVoices()` and then   *)
(* `return this.synthesis.getVoices()`.                                    *)
(***************************************************************************)
GetAvailableVoices ==
  /\ nSess < MaxSess
  /\ LET s == nSess + 1
     IN /\ nSess' = s
        /\ sKind' = [sKind EXCEPT ![s] = "voices"]
        /\ sWrapper' = [sWrapper EXCEPT ![s] = 0]
        /\ promise' = [promise EXCEPT ![s] = "pending"]
        /\ IF voices
             THEN /\ uState' = [uState EXCEPT ![s] = "micro"]
                  /\ UNCHANGED <<voicesHandler, timerQ>>
             ELSE /\ uState' = [uState EXCEPT ![s] = "waiting"]
                  /\ voicesHandler' = s
                  /\ timerQ' = Append(timerQ, s)
        /\ lastOp' = <<"getAvailableVoices", s, "call">>
        /\ UNCHANGED <<sText, sOptions, uProps, queue, paused, voices, isSpeaking,
                       currentUtterance, timer>>
        /\ UNCHANGED <<sttVars, ctlVars>>

\* the continuation after the await: the call returns the voice list
VoicesReturn(s) ==
  /\ sKind[s] = "voices"
  /\ uState[s] = "micro"
  /\ uState' = [uState EXCEPT ![s] = "done"]
  /\ promise' = Settle(s, "resolved")
  /\ lastOp' = <<"voicesReturn", s, "noop">>
  /\ UNCHANGED <<nSess, sKind, sText, sOptions, uProps, sWrapper, queue, paused, voices,
                 voicesHandler, isSpeaking, currentUtterance, timer, timerQ>>
  /\ UNCHANGED <<sttVars, ctlVars>>

\* the platform populates the voice list and fires voiceschanged
VoicesChanged ==
  /\ ~voices
  /\ ~MicrotaskPending
  /\ voices' = TRUE
  /\ IF voicesHandler # 0 /\ uState[voicesHandler] = "waiting"
       THEN /\ uState' = [uState EXCEPT ![voicesHandler] = "micro"]
            /\ timerQ' = Without(timerQ, voicesHandler)
       ELSE UNCHANGED <<uState, timerQ>>
  /\ lastOp' = <<"voiceschanged", voicesHandler, "event">>
  /\ UNCHANGED <<nSess, sKind, sText, sOptions, uProps, sWrapper, queue, paused, voicesHandler, isSpeaking,
                 currentUtterance, promise, timer>>
  /\ UNCHANGED <<sttVars, ctlVars>>

\* the 1 s fallback of loadVoices; a timer set earlier with the same delay
\* expires first
LoadTimeout(s) ==
  /\ uState[s] = "waiting"
  /\ ~MicrotaskPending
  /\ \A i \in 1..Len(timerQ) :
        (timerQ[i] # s /\ uState[timerQ[i]] = "waiting") =>
           \E j \in 1..(i - 1) : timerQ[j] = s
  /\ uState' = [uState EXCEPT ![s] = "micro"]
  /\ timerQ' = Without(timerQ, s)
  /\ lastOp' = <<"loadTimeout", s, "timer">>
  /\ UNCHANGED <<nSess, sKind, sText, sOptions, uProps, sWrapper, queue, paused, voices, voicesHandler,
                 isSpeaking, currentUtterance, promise, timer>>
  /\ UNCHANGED <<sttVars, ctlVars>>

\* the rest of textToSpeech: the utterance is created and submitted and the
\* 30 s safety timeout is set
TtsSubmit(s) ==
  /\ sKind[s] = "tts"
  /\ uState[s] = "micro"
  /\ uState' = [uState EXCEPT ![s] = "pending"]
  /\ currentUtterance' = [currentUtterance EXCEPT ![sWrapper[s]] = s]
  /\ queue' = Append(queue, s)
  /\ timer' = [timer EXCEPT ![s] = "armed"]
  /\ timerQ' = Append(timerQ, s)
  /\ uProps' = [uProps EXCEPT ![s] = UtteranceOf(sOptions[s])]
  /\ lastOp' = <<"submit", s, "noop">>
  /\ UNCHANGED <<nSess, sKind, sText, sOptions, sWrapper, paused, voices, voicesHandler,
                 isSpeaking, promise>>
  /\ UNCHANGED <<sttVars, ctlVars>>

(***************************************************************************)
(* The utterance's event handlers (the same for speak and textToSpeech but *)
(* for the promise).                                                       *)
(***************************************************************************)
\* utterance.onstart
PlatformStart(s) ==
  /\ ~MicrotaskPending
  /\ queue # <<>> /\ Head(queue) = s
  /\ uState[s] = "pending"
  /\ ~paused
  /\ uState' = [uState EXCEPT ![s] = "speaking"]
  /\ isSpeaking' = [isSpeaking EXCEPT ![sWrapper[s]] = TRUE]
  /\ lastOp' = <<"start", s, "event">>
  /\ UNCHANGED <<nSess, sKind, sText, sOptions, uProps, sWrapper, queue, paused, voices, voicesHandler,
                 currentUtterance, promise, timer, timerQ>>
  /\ UNCHANGED <<sttVars, ctlVars>>

\* what onend / onerror do to the wrapper and to the promise
Terminal(s, outcome) ==
  /\ uState' = [uState EXCEPT ![s] = "done"]
  /\ queue' = Without(queue, s)
  /\ isSpeaking' = [isSpeaking EXCEPT ![sWrapper[s]] = FALSE]
  /\ currentUtterance' = [currentUtterance EXCEPT ![sWrapper[s]] = 0]
  /\ promise' = IF sKind[s] = "tts" THEN Settle(s, outcome) ELSE promise
  /\ UNCHANGED <<nSess, sKind, sText, sOptions, uProps, sWrapper, paused, voices, voicesHandler, timer, timerQ>>
  /\ UNCHANGED <<sttVars, ctlVars>>

\* utterance.onend: the utterance was spoken to its end
PlatformEnd(s) ==
  /\ ~MicrotaskPending
  /\ uState[s] = "speaking"
  /\ ~paused
  /\ Terminal(s, "resolved")
  /\ lastOp' = <<"end", s, "event">>

\* utterance.onerror: the platform fails the utterance at the head of the queue
PlatformError(s) ==
  /\ ~MicrotaskPending
  /\ queue # <<>> /\ Head(queue) = s
  /\ uState[s] \in {"pending", "speaking"}
  /\ Terminal(s, "rejected")
  /\ lastOp' = <<"error", s, "event">>

\* the terminal event of an utterance removed by cancel(): end or error,
\* depending on the browser
PlatformCancelled(s) ==
  /\ ~MicrotaskPending
  /\ uState[s] = "cancelled"
  /\ \E outcome \in {"resolved", "rejected"} :
        /\ Terminal(s, outcome)
        /\ lastOp' = <<IF outcome = "resolved" THEN "end" ELSE "error", s, "cancelled">>

(***************************************************************************)
(* The 30 s safety timeout of textToSpeech.                                *)
(***************************************************************************)
TimeoutCancels(s) == isSpeaking[sWrapper[s]]

SafetyTimeout(s) ==
  /\ ~MicrotaskPending
  /\ timer[s] = "armed"
  /\ timerQ # <<>> /\ Head(timerQ) = s
  /\ timer' = [timer EXCEPT ![s] = "fired"]
  /\ timerQ' = Tail(timerQ)
  /\ IF TimeoutCancels(s)
       THEN /\ uState' = SynthesisCancelStates
            /\ queue' = <<>>
            /\ promise' = Settle(s, "timeout")
       ELSE UNCHANGED <<uState, queue, promise>>
  /\ lastOp' = <<"timeout", s, IF TimeoutCancels(s) THEN "cancel" ELSE "noop">>
  /\ UNCHANGED <<nSess, sKind, sText, sOptions, uProps, sWrapper, paused, voices, voicesHandler,
                 isSpeaking, currentUtterance>>
  /\ UNCHANGED <<sttVars, ctlVars>>

(***************************************************************************)
(* TextToSpeech.pause() / resume()                                         *)
(***************************************************************************)
Pause(w) ==
  /\ w = 0
  /\ paused' = (IF isSpeaking[w] THEN TRUE ELSE paused)
  /\ lastOp' = <<"pause", 0, IF isSpeaking[w] THEN "platform" ELSE "noop">>
  /\ UNCHANGED <<nSess, sKind, sText, sOptions, uProps, sWrapper, uState, queue, voices, voicesHandler,
                 isSpeaking, currentUtterance, promise, timer, timerQ>>
  /\ UNCHANGED <<sttVars, ctlVars>>

Resume(w) ==
  /\ w = 0
  /\ paused' = (IF paused THEN FALSE ELSE paused)
  /\ lastOp' = <<"resume", 0, IF paused THEN "platform" ELSE "noop">>
  /\ UNCHANGED <<nSess, sKind, sText, sOptions, uProps, sWrapper, uState, queue, voices, voicesHandler,
                 isSpeaking, currentUtterance, promise, timer, timerQ>>
  /\ UNCHANGED <<sttVars, ctlVars>>

(***************************************************************************)
(* Text: a string is a sequence of one-character strings.                  *)
(***************************************************************************)
SegTexts == {<<"a">>, <<"b">>}
Segments == [text : SegTexts, final : BOOLEAN]

\* number of input sessions (start calls) in one run
MaxRec == 2
\* number of result events the platform emits in one run
MaxResults == 2
\* number of transcript segments in one result event
MaxSegs == 2

RecSessions == 1..MaxRec

\* the result events over a set of segment texts
ResultEventsOver(texts) ==
  UNION {[1..n -> [text : texts, final : BOOLEAN]] : n \in 1..MaxSegs}

ResultEvents == ResultEventsOver(SegTexts)

\* the result events of the specifications that explore the control flow
ControlEvents == ResultEventsOver({<<"a">>})

\* event.error values; "network" stands for every code the code does not name
ErrorCodes == {"no-speech", "audio-capture", "not-allowed", "network"}

NoSpeechText == <<"No speech detected. Please try again.">>

Pending == [st |-> "pending", tag |-> "", text |-> <<>>]
Resolved(tag, txt) == [st |-> "resolved", tag |-> tag, text |-> txt]
Rejected(tag) == [st |-> "rejected", tag |-> tag, text |-> <<>>]

\* resolve()/reject() of the promise of session r; no effect once settled
RSettle(p, r, outcome) ==
  IF p[r].st = "pending" THEN [p EXCEPT ![r] = outcome] ELSE p

\* String.prototype.trim()
RECURSIVE TrimLeft(_)
TrimLeft(t) == IF t # <<>> /\ Head(t) = " " THEN TrimLeft(Tail(t)) ELSE t

RECURSIVE TrimRight(_)
TrimRight(t) ==
  IF t # <<>> /\ t[Len(t)] = " " THEN TrimRight(SubSeq(t, 1, Len(t) - 1)) ELSE t

Trim(t) == TrimRight(TrimLeft(t))

\* index of the first "]" of t at or after position i, 0 when there is none
RECURSIVE ClosingAt(_, _)
ClosingAt(t, i) ==
  IF i > Len(t) THEN 0 ELSE IF t[i] = "]" THEN i ELSE ClosingAt(t, i + 1)

\* prev.replace(/\[.*?\]/g, '')
RECURSIVE StripInterim(_)
StripInterim(t) ==
  IF t = <<>> THEN <<>>
  ELSE IF Head(t) = "[" /\ ClosingAt(t, 2) # 0
         THEN StripInterim(SubSeq(t, ClosingAt(t, 2) + 1, Len(t)))
         ELSE <<Head(t)>> \o StripInterim(Tail(t))

(***************************************************************************)
(* The callbacks Controls.startRecording registers on the wrapper.         *)
(***************************************************************************)
\* the (transcript, isFinal) callback given to onResult: the new text
CtlResultText(prev, transcript, isFinal) ==
  LET clean == Trim(StripInterim(prev))
      sep == IF clean # <<>> THEN <<" ">> ELSE <<>>
  IN IF isFinal /\ transcript # <<>> THEN clean \o sep \o transcript
     ELSE IF transcript # <<>> THEN clean \o sep \o <<"[">> \o transcript \o <<"]">>
     ELSE prev

RECURSIVE CtlApplyResults(_, _)
CtlApplyResults(prev, calls) ==
  IF calls = <<>> THEN prev
  ELSE CtlApplyResults(CtlResultText(prev, Head(calls)[1], Head(calls)[2]), Tail(calls))

\* the (error) callback given to onError: the alert it shows ("" for none)
CtlErrorAlert(code) ==
  IF code = "not-allowed" THEN "Microphone permission denied"
  ELSE IF code = "no-speech" THEN ""
  ELSE IF code = "audio-capture" THEN "No microphone found"
  ELSE "Speech recognition error: " \o code

CtlOnError(code) ==
  /\ alerts' = IF CtlErrorAlert(code) = "" THEN alerts ELSE alerts \cup {CtlErrorAlert(code)}
  /\ text' = IF code = "no-speech" THEN NoSpeechText ELSE text
  /\ ctlIsRecording' = FALSE

\* the catch block of startRecording
StartFailedAlert == "Speech recognition failed. Please try again."

CtlStartFailed ==
  /\ alerts' = alerts \cup {StartFailedAlert}
  /\ ctlIsRecording' = FALSE

(***************************************************************************)
(* The SpeechRecognition object.                                           *)
(***************************************************************************)
\* recognition.stop(): the state of the recognition after the call
RecAfterStop(st) == IF st \in {"starting", "listening"} THEN "stopping" ELSE st

\* recognition.start() throws InvalidStateError unless the recognition is idle
StartThrows == recState # "idle"

\* the result events a recognition with these settings can emit next
CanEmit(ev) ==
  /\ recInterim \/ \A i \in 1..Len(ev) : ev[i].final
  /\ ~recContinuous =>
       /\ ~finalEmitted
       /\ Cardinality({i \in 1..Len(ev) : ev[i].final}) <= 1

(***************************************************************************)
(* SpeechToText.onResult: the closure it installs as recognition.onresult. *)
(***************************************************************************)
RECURSIVE FinalsOf(_)
FinalsOf(ev) ==
  IF ev = <<>> THEN <<>>
  ELSE (IF Head(ev).final THEN Head(ev).text \o <<" ">> ELSE <<>>) \o FinalsOf(Tail(ev))

RECURSIVE LastInterimOf(_)
LastInterimOf(ev) ==
  IF ev = <<>> THEN <<>>
  ELSE IF ~ev[Len(ev)].final THEN ev[Len(ev)].text
  ELSE LastInterimOf(SubSeq(ev, 1, Len(ev) - 1))

\* one call per segment, in the order of the segments
ListenerCalls_PerSegment(ev) ==
  [i \in 1..Len(ev) |-> <<ev[i].text, ev[i].final>>]

\* the callback calls the closure makes for one result event, in order
ListenerCalls(ev) ==
  (IF FinalsOf(ev) # <<>> THEN << <<Trim(FinalsOf(ev)), TRUE>> >> ELSE <<>>)
  \o (IF LastInterimOf(ev) # <<>> THEN << <<LastInterimOf(ev), FALSE>> >> ELSE <<>>)

(***************************************************************************)
(* SpeechToText.speechToText: its onresult closure.                        *)
(***************************************************************************)
RECURSIVE FinalText(_)
FinalText(ev) ==
  IF ev = <<>> THEN <<>>
  ELSE (IF Head(ev).final THEN Head(ev).text ELSE <<>>) \o FinalText(Tail(ev))

\* `if (!continuous && finalTranscript) this.recognition.stop()`
ResultStops(r, ev) == ~rContinuous[r] /\ (finalTranscript[r] \o FinalText(ev)) # <<>>

\* what onend / the timer resolve the promise with
TranscriptOr(r, tag) ==
  IF finalTranscript[r] # <<>> THEN Resolved("transcript", finalTranscript[r])
  ELSE Resolved(tag, <<>>)

EndOutcome(r) ==
  IF hasResult[r] THEN TranscriptOr(r, "No speech detected")
  ELSE Resolved("No speech detected", <<>>)

\* speechToText's onerror
SttErrorOutcome(code) ==
  IF code = "no-speech" THEN Resolved("No speech detected", <<>>)
  ELSE IF code = "audio-capture" THEN Rejected("No microphone found")
  ELSE IF code = "not-allowed" THEN Rejected("Microphone permission denied")
  ELSE Rejected("Speech recognition error: " \o code)

\* startRecognition's onerror
RecErrorOutcome(code) ==
  IF code = "not-allowed" THEN Rejected("Microphone permission denied")
  ELSE IF code = "audio-capture" THEN Rejected("No microphone found")
  ELSE Rejected("Speech recognition error: " \o code)

(***************************************************************************)
(* SpeechToText.speechToText(options)                                      *)
(***************************************************************************)
\* no result event is dispatched in this step
NoDelivery == lastEvent' = <<>> /\ cbLog' = <<>>

\* recognition.start() on an idle recognition
RecognitionStarts ==
  /\ recState' = "starting"
  /\ finalEmitted' = FALSE
  /\ stopCalls' = 0

SpeechToText(continuous, interimResults, audio) ==
  /\ nRec < MaxRec
  /\ LET r == nRec + 1
     IN /\ nRec' = r
        /\ rKind' = [rKind EXCEPT ![r] = "stt"]
        /\ recContinuous' = continuous
        /\ recInterim' = interimResults
        /\ finalTranscript' = [finalTranscript EXCEPT ![r] = <<>>]
        /\ hasResult' = [hasResult EXCEPT ![r] = FALSE]
        /\ rContinuous' = [rContinuous EXCEPT ![r] = continuous]
        /\ hStart' = r /\ hResult' = r /\ hError' = r /\ hEnd' = r
        /\ IF audio
             THEN \* await this.processAudioBlob(audio, this.recognition)
                  /\ rAudio' = [rAudio EXCEPT ![r] = "requested"]
                  /\ rPromise' = [rPromise EXCEPT ![r] = Pending]
                  /\ UNCHANGED <<recState, finalEmitted, stopCalls, rTimer, rTimerQ>>
             ELSE IF StartThrows
             THEN \* this.recognition.start() throws: the catch rejects
                  /\ rPromise' = [rPromise EXCEPT ![r] = Rejected("Speech recognition failed")]
                  /\ UNCHANGED <<rAudio, recState, finalEmitted, stopCalls, rTimer, rTimerQ>>
             ELSE /\ rPromise' = [rPromise EXCEPT ![r] = Pending]
                  /\ RecognitionStarts
                  /\ rTimer' = [rTimer EXCEPT ![r] = "armed"]
                  /\ rTimerQ' = Append(rTimerQ, r)
                  /\ UNCHANGED rAudio
  /\ NoDelivery
  /\ UNCHANGED <<isRecording, nResults, recError, errLog, ctlVars, ttsVars>>

(***************************************************************************)
(* SpeechToText.processAudioBlob: the events of the Audio element.         *)
(***************************************************************************)
\* audioElement.onplay: recognition.start()
AudioPlay(r) ==
  /\ rAudio[r] = "requested"
  /\ rAudio' = [rAudio EXCEPT ![r] = "playing"]
  /\ IF StartThrows
       THEN UNCHANGED <<recState, finalEmitted, stopCalls>>
       ELSE RecognitionStarts
  /\ NoDelivery
  /\ UNCHANGED <<nRec, rKind, rPromise, finalTranscript, hasResult, rContinuous, rTimer,
                 rTimerQ, isRecording, recContinuous, recInterim, hStart, hResult,
                 hError, hEnd, nResults, recError, errLog, ctlVars, ttsVars>>

\* audioElement.onerror, or play() rejected: processAudioBlob rejects and the
\* catch of speechToText rejects the promise
AudioError(r) ==
  /\ rAudio[r] \in {"requested", "playing"}
  /\ rAudio' = [rAudio EXCEPT ![r] = "failed"]
  /\ rPromise' = RSettle(rPromise, r, Rejected("Speech recognition failed"))
  /\ NoDelivery
  /\ UNCHANGED <<nRec, rKind, finalTranscript, hasResult, rContinuous, rTimer, rTimerQ,
                 isRecording, recState, recContinuous, recInterim, hStart, hResult,
                 hError, hEnd, finalEmitted, nResults, stopCalls, recError, errLog,
                 ctlVars, ttsVars>>

\* audioElement.onended: setTimeout(..., 1000)
AudioEnded(r) ==
  /\ rAudio[r] = "playing"
  /\ rAudio' = [rAudio EXCEPT ![r] = "endedWait"]
  /\ rTimerQ' = Append(rTimerQ, r)
  /\ NoDelivery
  /\ UNCHANGED <<nRec, rKind, rPromise, finalTranscript, hasResult, rContinuous, rTimer,
                 isRecording, recState, recContinuous, recInterim, hStart, hResult,
                 hError, hEnd, finalEmitted, nResults, stopCalls, recError, errLog,
                 ctlVars, ttsVars>>

\* the 1 s timer of onended: stop if recording, resolve; speechToText then
\* continues after its await and sets the 30 s timer
AudioEndedTimeout(r) ==
  /\ rAudio[r] = "endedWait"
  /\ \A i \in 1..Len(rTimerQ) :
        (rTimerQ[i] # r /\ rAudio[rTimerQ[i]] = "endedWait") =>
           \E j \in 1..(i - 1) : rTimerQ[j] = r
  /\ rAudio' = [rAudio EXCEPT ![r] = "done"]
  /\ recState' = IF isRecording THEN RecAfterStop(recState) ELSE recState
  /\ stopCalls' = IF isRecording THEN stopCalls + 1 ELSE stopCalls
  /\ rTimer' = [rTimer EXCEPT ![r] = "armed"]
  /\ rTimerQ' = Append(Without(rTimerQ, r), r)
  /\ NoDelivery
  /\ UNCHANGED <<nRec, rKind, rPromise, finalTranscript, hasResult, rContinuous,
                 isRecording, recContinuous, recInterim, hStart, hResult, hError, hEnd,
                 finalEmitted, nResults, recError, errLog, ctlVars, ttsVars>>

\* the 30 s auto-stop timer of speechToText
AutoStopStops(r) == isRecording

AutoStop(r) ==
  /\ rTimer[r] = "armed"
  /\ rTimerQ # <<>> /\ Head(rTimerQ) = r
  /\ rTimer' = [rTimer EXCEPT ![r] = "fired"]
  /\ rTimerQ' = Tail(rTimerQ)
  /\ IF AutoStopStops(r)
       THEN /\ recState' = RecAfterStop(recState)
            /\ stopCalls' = stopCalls + 1
            /\ rPromise' = RSettle(rPromise, r, TranscriptOr(r, "Recognition timeout"))
       ELSE UNCHANGED <<recState, stopCalls, rPromise>>
  /\ NoDelivery
  /\ UNCHANGED <<nRec, rKind, finalTranscript, hasResult, rContinuous, rAudio,
                 isRecording, recContinuous, recInterim, hStart, hResult, hError, hEnd,
                 finalEmitted, nResults, recError, errLog, ctlVars, ttsVars>>

(***************************************************************************)
(* SpeechToText.startRecognition(options)                                  *)
(***************************************************************************)
StartRecognitionOn(r, continuous, interimResults) ==
  /\ nRec' = r
  /\ rKind' = [rKind EXCEPT ![r] = "rec"]
  /\ recContinuous' = continuous
  /\ recInterim' = interimResults
  /\ rContinuous' = [rContinuous EXCEPT ![r] = continuous]
  /\ hStart' = r /\ hError' = r
  /\ IF StartThrows
       THEN /\ rPromise' = [rPromise EXCEPT ![r] = Rejected("Failed to start recognition")]
            /\ UNCHANGED <<recState, finalEmitted, stopCalls>>
       ELSE /\ rPromise' = [rPromise EXCEPT ![r] = Pending]
            /\ RecognitionStarts
  /\ NoDelivery
  /\ UNCHANGED <<finalTranscript, hasResult, rAudio, rTimer, rTimerQ, isRecording,
                 hEnd, nResults, recError, errLog>>

StartRecognition(continuous, interimResults) ==
  /\ nRec < MaxRec
  /\ StartRecognitionOn(nRec + 1, continuous, interimResults)
  /\ UNCHANGED <<hResult, ctlVars, ttsVars>>

(***************************************************************************)
(* SpeechToText.stopRecognition()                                          *)
(***************************************************************************)
StopRecognitionStops_Always == TRUE

StopRecognitionStops == isRecording

StopRecognitionEffect ==
  /\ recState' = IF StopRecognitionStops THEN RecAfterStop(recState) ELSE recState
  /\ stopCalls' = IF StopRecognitionStops THEN stopCalls + 1 ELSE stopCalls
  /\ isRecording' = FALSE
  /\ NoDelivery
  /\ UNCHANGED <<nRec, rKind, rPromise, finalTranscript, hasResult, rContinuous, rAudio,
                 rTimer, rTimerQ, recContinuous, recInterim, hStart, hResult, hError,
                 hEnd, finalEmitted, nResults, recError, errLog>>

StopRecognition ==
  /\ StopRecognitionEffect
  /\ UNCHANGED <<ctlVars, ttsVars>>

(***************************************************************************)
(* SpeechToText.onResult(callback) / onError(callback)                     *)
(***************************************************************************)
OnResultEffect(callback) ==
  /\ hResult' = callback

OnErrorEffect(callback) ==
  /\ hError' = callback

OnResult ==
  /\ OnResultEffect(-1)
  /\ NoDelivery
  /\ UNCHANGED <<nRec, rKind, rPromise, finalTranscript, hasResult, rContinuous, rAudio,
                 rTimer, rTimerQ, isRecording, recState, recContinuous, recInterim,
                 hStart, hError, hEnd, finalEmitted, nResults, stopCalls, recError,
                 errLog, ctlVars, ttsVars>>

OnError ==
  /\ OnErrorEffect(-1)
  /\ NoDelivery
  /\ UNCHANGED <<nRec, rKind, rPromise, finalTranscript, hasResult, rContinuous, rAudio,
                 rTimer, rTimerQ, isRecording, recState, recContinuous, recInterim,
                 hStart, hResult, hEnd, finalEmitted, nResults, stopCalls, recError,
                 errLog, ctlVars, ttsVars>>

(***************************************************************************)
(* The events of the SpeechRecognition object; each runs the handler that  *)
(* is installed when it is emitted.                                        *)
(***************************************************************************)
\* recognition.onstart
RecStart ==
  /\ recState = "starting"
  /\ recState' = "listening"
  /\ isRecording' = (IF hStart > 0 THEN TRUE ELSE isRecording)
  /\ rPromise' = IF hStart > 0 /\ rKind[hStart] = "rec"
                   THEN RSettle(rPromise, hStart, Resolved("started", <<>>))
                   ELSE rPromise
  /\ NoDelivery
  /\ UNCHANGED <<nRec, rKind, finalTranscript, hasResult, rContinuous, rAudio, rTimer,
                 rTimerQ, recContinuous, recInterim, hStart, hResult, hError, hEnd,
                 finalEmitted, nResults, stopCalls, recError, errLog, ctlView, ctlEnv,
                 ttsVars>>
  \* startRecording continues after its await once the promise is resolved
  /\ ctlAwait' = IF hStart > 0 THEN ctlAwait \ {hStart} ELSE ctlAwait

\* recognition.onresult
RecResult(ev) ==
  /\ recState \in {"listening", "stopping"}
  /\ nResults < MaxResults
  /\ CanEmit(ev)
  /\ nResults' = nResults + 1
  /\ finalEmitted' = (finalEmitted \/ \E i \in 1..Len(ev) : ev[i].final)
  /\ lastEvent' = ev
  /\ IF hResult > 0
       THEN \* the closure of speechToText
            /\ finalTranscript' =
                 [finalTranscript EXCEPT ![hResult] = @ \o FinalText(ev)]
            /\ hasResult' = [hasResult EXCEPT ![hResult] = TRUE]
            /\ recState' = IF ResultStops(hResult, ev) THEN RecAfterStop(recState)
                           ELSE recState
            /\ stopCalls' = IF ResultStops(hResult, ev) THEN stopCalls + 1 ELSE stopCalls
            /\ cbLog' = <<>>
            /\ UNCHANGED text
       ELSE \* the closure of onResult, or no handler
            /\ cbLog' = IF hResult < 0 THEN ListenerCalls(ev) ELSE <<>>
            /\ text' = IF hResult = -2 THEN CtlApplyResults(text, ListenerCalls(ev))
                       ELSE text
            /\ UNCHANGED <<finalTranscript, hasResult, recState, stopCalls>>
  /\ UNCHANGED <<nRec, rKind, rPromise, rContinuous, rAudio, rTimer, rTimerQ,
                 isRecording, recContinuous, recInterim, hStart, hResult, hError, hEnd,
                 recError, errLog, ctlIsRecording, alerts, ctlEnv, ctlAwait, ttsVars>>

\* recognition.onerror
RecError(code) ==
  /\ recState \in {"starting", "listening", "stopping"}
  \* "no speech was detected" is reported by a recognition that has listened
  /\ code = "no-speech" => recState # "starting"
  /\ recState' = "errored"
  /\ recError' = code
  /\ IF hError > 0
       THEN /\ isRecording' = FALSE
            /\ rPromise' = RSettle(rPromise, hError,
                                   IF rKind[hError] = "stt" THEN SttErrorOutcome(code)
                                   ELSE RecErrorOutcome(code))
            /\ IF hError \in ctlAwait
                 THEN \* the await of startRecording throws: its catch block
                      /\ CtlStartFailed
                      /\ ctlAwait' = ctlAwait \ {hError}
                      /\ UNCHANGED text
                 ELSE UNCHANGED <<text, ctlIsRecording, alerts, ctlAwait>>
            /\ UNCHANGED errLog
       ELSE IF hError = -2
       THEN /\ CtlOnError(code)
            /\ errLog' = code
            /\ UNCHANGED <<isRecording, rPromise, ctlAwait>>
       ELSE IF hError = -1
       THEN /\ errLog' = code
            /\ UNCHANGED <<isRecording, rPromise, text, ctlIsRecording, alerts, ctlAwait>>
       ELSE UNCHANGED <<isRecording, rPromise, text, ctlIsRecording, alerts, errLog,
                        ctlAwait>>
  /\ UNCHANGED ctlEnv
  /\ NoDelivery
  /\ UNCHANGED <<nRec, rKind, finalTranscript, hasResult, rContinuous, rAudio, rTimer,
                 rTimerQ, recContinuous, recInterim, hStart, hResult, hError, hEnd,
                 finalEmitted, nResults, stopCalls, ttsVars>>

\* recognition.onend
RecEnd ==
  /\ recState \in {"listening", "stopping", "errored"}
  /\ recState' = "idle"
  /\ recError' = ""
  /\ errLog' = ""
  /\ isRecording' = (IF hEnd > 0 THEN FALSE ELSE isRecording)
  /\ rPromise' = IF hEnd > 0 THEN RSettle(rPromise, hEnd, EndOutcome(hEnd)) ELSE rPromise
  /\ NoDelivery
  /\ UNCHANGED <<nRec, rKind, finalTranscript, hasResult, rContinuous, rAudio, rTimer,
                 rTimerQ, recContinuous, recInterim, hStart, hResult, hError, hEnd,
                 finalEmitted, nResults, stopCalls, ctlVars, ttsVars>>

(***************************************************************************)
(* Controls (page.tsx): initializeServices and the handlers of the page.   *)
(***************************************************************************)
isSupported == hasTTS \/ hasSTT

\* the texts the user types into the text box
TypedTexts == {<<>>, <<" ">>, <<"a">>}

NotSupportedAlert == "Speech-to-Text not supported in this browser."
MicRequiredAlert == "Microphone access is required for speech recognition."

\* initializeServices after `await import("../services/web-speech-tts")`
TtsImported ==
  /\ initPc = "importTTS"
  /\ ttsRef' = "real"
  /\ initPc' = IF hasSTT THEN "importSTT" ELSE "done"
  /\ sttRef' = IF hasSTT THEN sttRef ELSE "fallback"
  /\ UNCHANGED <<mode, isLoading, hasTTS, hasSTT, permWait, speakWait, ctlView,
                 ctlAwait, ttsVars, sttVars>>

\* initializeServices after `await import("../services/web-speech-stt")`
SttImported ==
  /\ initPc = "importSTT"
  /\ sttRef' = "real"
  /\ initPc' = "done"
  /\ UNCHANGED <<mode, isLoading, hasTTS, hasSTT, ttsRef, permWait, speakWait, ctlView,
                 ctlAwait, ttsVars, sttVars>>

\* an import fails: the catch of initializeServices installs both fallbacks
ImportFailed ==
  /\ initPc \in {"importTTS", "importSTT"}
  /\ sttRef' = "fallback"
  /\ ttsRef' = "fallback"
  /\ initPc' = "done"
  /\ UNCHANGED <<mode, isLoading, hasTTS, hasSTT, permWait, speakWait, ctlView,
                 ctlAwait, ttsVars, sttVars>>

\* TextInput onChange={setText}; disabled while recording in stt mode
SetText(t) ==
  /\ isSupported
  /\ ~(mode = "stt" /\ ctlIsRecording)
  /\ text' = t
  /\ UNCHANGED <<ctlIsRecording, alerts, ctlEnv, ctlAwait, ttsVars, sttVars>>

\* the button of the input area: its `disabled` attribute
ButtonEnabled ==
  /\ ~isLoading
  /\ ~(mode = "tts" /\ Trim(text) = <<>>)
  /\ ~(mode = "tts" /\ ~hasTTS)
  /\ ~(mode = "stt" /\ ~hasSTT)

FallbackSpeakAlert == "Text-to-Speech: Using fallback - audio playback not available."

\* `if (!browserSupport || !browserSupport.hasTTS)`, with the check left out
SpeakUsesFallback_Never == FALSE

SpeakUsesFallback == ~hasTTS

\* handleTextToSpeech, up to its `await import(...)`
HandleTextToSpeech ==
  /\ nSess + Len(speakWait) < MaxSess
  /\ IF Trim(text) = <<>>
       THEN UNCHANGED <<alerts, isLoading, speakWait>>
       ELSE IF SpeakUsesFallback
       THEN \* FallbackTTS.speak(...); return; finally
            /\ alerts' = alerts \cup {FallbackSpeakAlert}
            /\ isLoading' = FALSE
            /\ UNCHANGED speakWait
       ELSE /\ isLoading' = TRUE
            /\ speakWait' = Append(speakWait, Trim(text))
            /\ UNCHANGED alerts
  /\ UNCHANGED <<text, ctlIsRecording, mode, hasTTS, hasSTT, initPc, sttRef, ttsRef,
                 permWait, ctlAwait, ttsVars, sttVars>>

\* the button in tts mode: handleSubmit
ClickSpeak ==
  /\ isSupported
  /\ ButtonEnabled
  /\ mode = "tts"
  /\ HandleTextToSpeech

\* handleTextToSpeech after the import: speakText(...), then finally
SpeakImported ==
  /\ speakWait # <<>>
  /\ SpeakOn(nSess + 1, nSess + 1, Head(speakWait))
  /\ isLoading' = FALSE
  /\ speakWait' = Tail(speakWait)
  /\ UNCHANGED <<mode, hasTTS, hasSTT, initPc, sttRef, ttsRef, permWait, ctlView,
                 ctlAwait, sttVars>>

\* the import rejects: the catch block of handleTextToSpeech, then finally
TtsFailedAlert == "Text-to-speech service unavailable."

SpeakImportFailed ==
  /\ speakWait # <<>>
  /\ alerts' = alerts \cup {TtsFailedAlert}
  /\ isLoading' = FALSE
  /\ speakWait' = Tail(speakWait)
  /\ UNCHANGED <<text, ctlIsRecording, mode, hasTTS, hasSTT, initPc, sttRef, ttsRef,
                 permWait, ctlAwait, ttsVars, sttVars>>

\* `if (!browserSupport || !browserSupport.hasSTT)`, with the check left out
StartUsesFallback_Never == FALSE

StartUsesFallback == ~hasSTT

\* startRecording, up to `await requestMicrophonePermission()`
StartRecording ==
  /\ IF StartUsesFallback
       THEN \* FallbackSTT.startRecognition() alerts and throws
            /\ alerts' = alerts \cup {NotSupportedAlert}
            /\ UNCHANGED permWait
       ELSE /\ nRec + permWait < MaxRec
            /\ permWait' = permWait + 1
            /\ UNCHANGED alerts
  /\ UNCHANGED <<text, ctlIsRecording, mode, isLoading, hasTTS, hasSTT, initPc, sttRef,
                 ttsRef, speakWait, ctlAwait, ttsVars, sttVars>>

\* the button in stt mode while not recording
ClickRecord ==
  /\ isSupported
  /\ ButtonEnabled
  /\ mode = "stt"
  /\ ~ctlIsRecording
  /\ StartRecording

\* getUserMedia rejects: requestMicrophonePermission returns false
PermissionDenied ==
  /\ permWait > 0
  /\ permWait' = permWait - 1
  /\ alerts' = alerts \cup {MicRequiredAlert}
  /\ UNCHANGED <<text, ctlIsRecording, mode, isLoading, hasTTS, hasSTT, initPc, sttRef,
                 ttsRef, speakWait, ctlAwait, ttsVars, sttVars>>

\* getUserMedia resolves: startRecording registers its callbacks and calls
\* startRecognition.  onError(callback) assigns recognition.onerror and
\* startRecognition then assigns it again
PermissionGranted ==
  /\ permWait > 0
  /\ permWait' = permWait - 1
  /\ text' = <<>>
  /\ IF sttRef = "real"
       THEN /\ OnResultEffect(-2)
            /\ StartRecognitionOn(nRec + 1, TRUE, TRUE)
            /\ IF StartThrows
                 THEN CtlStartFailed /\ UNCHANGED ctlAwait
                 ELSE /\ ctlIsRecording' = TRUE
                      /\ ctlAwait' = ctlAwait \cup {nRec + 1}
                      /\ UNCHANGED alerts
       ELSE \* FallbackSTT.startRecognition alerts and throws
            /\ alerts' = alerts \cup {NotSupportedAlert, StartFailedAlert}
            /\ ctlIsRecording' = FALSE
            /\ NoDelivery
            /\ UNCHANGED <<nRec, rKind, rPromise, finalTranscript, hasResult, rContinuous,
                           rAudio, rTimer, rTimerQ, isRecording, recState, recContinuous,
                           recInterim, hStart, hResult, hError, hEnd, finalEmitted,
                           nResults, stopCalls, recError, errLog, ctlAwait>>
  /\ UNCHANGED <<mode, isLoading, hasTTS, hasSTT, initPc, sttRef, ttsRef, speakWait,
                 ttsVars>>

\* stopRecording when `sttRef.current && isRecording`
StopRecordingEffect ==
  /\ IF sttRef = "real"
       THEN StopRecognitionEffect
       ELSE /\ NoDelivery
            /\ UNCHANGED <<nRec, rKind, rPromise, finalTranscript, hasResult, rContinuous,
                           rAudio, rTimer, rTimerQ, isRecording, recState, recContinuous,
                           recInterim, hStart, hResult, hError, hEnd, finalEmitted,
                           nResults, stopCalls, recError, errLog>>
  /\ ctlIsRecording' = FALSE
  /\ text' = Trim(StripInterim(text))

StopRecording ==
  /\ IF ctlIsRecording
       THEN StopRecordingEffect
       ELSE /\ NoDelivery
            /\ UNCHANGED <<nRec, rKind, rPromise, finalTranscript, hasResult, rContinuous,
                           rAudio, rTimer, rTimerQ, isRecording, recState, recContinuous,
                           recInterim, hStart, hResult, hError, hEnd, finalEmitted,
                           nResults, stopCalls, recError, errLog, text, ctlIsRecording>>
  /\ UNCHANGED <<alerts, ctlEnv, ctlAwait, ttsVars>>

\* the button in stt mode while recording
ClickStop ==
  /\ isSupported
  /\ ButtonEnabled
  /\ mode = "stt"
  /\ ctlIsRecording
  /\ StopRecording

\* the mode buttons: handleModeChange(newMode)
HandleModeChange(newMode) ==
  /\ isSupported
  /\ IF newMode # mode /\ mode = "stt" /\ ctlIsRecording
       THEN StopRecordingEffect
       ELSE /\ NoDelivery
            /\ UNCHANGED <<nRec, rKind, rPromise, finalTranscript, hasResult, rContinuous,
                           rAudio, rTimer, rTimerQ, isRecording, recState, recContinuous,
                           recInterim, hStart, hResult, hError, hEnd, finalEmitted,
                           nResults, stopCalls, recError, errLog, text, ctlIsRecording>>
  /\ IF newMode # mode /\ ttsRef = "real"
       THEN StopEffect(0)
       ELSE UNCHANGED ttsVars
  /\ mode' = newMode
  /\ UNCHANGED <<alerts, isLoading, hasTTS, hasSTT, initPc, sttRef, ttsRef, permWait,
                 speakWait, ctlAwait>>

(***************************************************************************)
(* Specification of the output side.                                       *)
(***************************************************************************)
InitSynthesis(voicesLoaded) ==
  /\ nSess = 0
  /\ sKind = [s \in Sessions |-> "none"]
  /\ sText = [s \in Sessions |-> <<>>]
  /\ sOptions = [s \in Sessions |-> DefaultOptions]
  /\ uProps = [s \in Sessions |-> NewUtterance]
  /\ sWrapper = [s \in Sessions |-> 0]
  /\ uState = [s \in Sessions |-> "none"]
  /\ queue = <<>>
  /\ paused = FALSE
  /\ voices = voicesLoaded
  /\ voicesHandler = 0
  /\ isSpeaking = [w \in Wrappers |-> FALSE]
  /\ currentUtterance = [w \in Wrappers |-> 0]
  /\ promise = [s \in Sessions |-> "none"]
  /\ timer = [s \in Sessions |-> "none"]
  /\ timerQ = <<>>
  /\ lastOp = <<"init", 0, "noop">>

InitSTT ==
  /\ nRec = 0
  /\ rKind = [r \in RecSessions |-> "none"]
  /\ rPromise = [r \in RecSessions |-> [st |-> "none", tag |-> "", text |-> <<>>]]
  /\ finalTranscript = [r \in RecSessions |-> <<>>]
  /\ hasResult = [r \in RecSessions |-> FALSE]
  /\ rContinuous = [r \in RecSessions |-> FALSE]
  /\ rAudio = [r \in RecSessions |-> "none"]
  /\ rTimer = [r \in RecSessions |-> "none"]
  /\ rTimerQ = <<>>
  /\ isRecording = FALSE
  /\ recState = "idle"
  \* setupRecognition()
  /\ recContinuous = FALSE
  /\ recInterim = TRUE
  /\ hStart = 0 /\ hResult = 0 /\ hError = 0 /\ hEnd = 0
  /\ finalEmitted = FALSE
  /\ nResults = 0
  /\ stopCalls = 0
  /\ recError = ""
  /\ errLog = ""
  /\ lastEvent = <<>>
  /\ cbLog = <<>>

\* Controls after its first render: the capability probe has set
\* browserSupport, both refs hold the fallbacks and initializeServices waits
\* for its first import
InitCtl(tts, stt) ==
  /\ text = <<>>
  /\ ctlIsRecording = FALSE
  /\ alerts = {}
  /\ mode = "tts"
  /\ isLoading = FALSE
  /\ hasTTS = tts
  /\ hasSTT = stt
  /\ initPc = (IF tts THEN "importTTS" ELSE IF stt THEN "importSTT" ELSE "done")
  /\ sttRef = "fallback"
  /\ ttsRef = "fallback"
  /\ permWait = 0
  /\ speakWait = <<>>
  /\ ctlAwait = {}

Init == InitSynthesis(TRUE) /\ InitSTT /\ InitCtl(TRUE, TRUE)

\* the voice list may not be populated yet when the first call is made
InitOut == (\E v \in BOOLEAN : InitSynthesis(v)) /\ InitSTT /\ InitCtl(TRUE, TRUE)

NextTTS ==
  \/ \E t \in UtterTexts : Speak(t)
  \/ \E t \in UtterTexts : SpeakText(t)
  \/ \E t \in UtterTexts : TextToSpeech(t)
  \/ VoicesChanged
  \/ \E s \in Sessions : LoadTimeout(s)
  \/ \E s \in Sessions : TtsSubmit(s)
  \/ \E s \in Sessions : PlatformStart(s)
  \/ \E s \in Sessions : PlatformEnd(s)
  \/ \E s \in Sessions : PlatformError(s)
  \/ \E s \in Sessions : PlatformCancelled(s)
  \/ \E s \in Sessions : SafetyTimeout(s)
  \/ Stop(0)
  \/ Pause(0)
  \/ Resume(0)

SpecTTS == InitOut /\ [][NextTTS]_vars

(***************************************************************************)
(* Specification of the input side: the methods of one SpeechToText        *)
(* instance called in any order, with the callbacks of Controls as the     *)
(* registered listeners.                                                   *)
(***************************************************************************)
NextSTT ==
  \/ \E c \in BOOLEAN : SpeechToText(c, TRUE, FALSE)
  \/ \E c \in BOOLEAN : StartRecognition(c, TRUE)
  \/ StopRecognition
  \/ OnResult
  \/ OnError
  \/ \E r \in RecSessions : AutoStop(r)
  \/ RecStart
  \/ \E ev \in ControlEvents : RecResult(ev)
  \/ \E code \in ErrorCodes : RecError(code)
  \/ RecEnd

SpecSTT == Init /\ [][NextSTT]_vars

(***************************************************************************)
(* Specification of speechToText with and without an audio blob.           *)
(***************************************************************************)
NextBlob ==
  \/ \E c \in BOOLEAN, a \in BOOLEAN : SpeechToText(c, TRUE, a)
  \/ \E r \in RecSessions : AudioPlay(r)
  \/ \E r \in RecSessions : AudioError(r)
  \/ \E r \in RecSessions : AudioEnded(r)
  \/ \E r \in RecSessions : AudioEndedTimeout(r)
  \/ \E r \in RecSessions : AutoStop(r)
  \/ RecStart
  \/ \E ev \in ControlEvents : RecResult(ev)
  \/ \E code \in ErrorCodes : RecError(code)
  \/ RecEnd

SpecBlob == Init /\ [][NextBlob]_vars

(***************************************************************************)
(* Specification of the page in use: Controls with the recognition and the *)
(* synthesis of the browser.                                               *)
(***************************************************************************)
InitPage ==
  /\ InitSynthesis(TRUE)
  /\ InitSTT
  /\ \E tts \in BOOLEAN, stt \in BOOLEAN : InitCtl(tts, stt)

\* the page while the user records
NextRecord ==
  \/ TtsImported
  \/ SttImported
  \/ ImportFailed
  \/ \E m \in {"tts", "stt"} : HandleModeChange(m)
  \/ ClickRecord
  \/ PermissionGranted
  \/ PermissionDenied
  \/ ClickStop
  \/ RecStart
  \/ \E ev \in ControlEvents : RecResult(ev)
  \/ \E code \in ErrorCodes : RecError(code)
  \/ RecEnd

SpecRecord == InitPage /\ [][NextRecord]_vars

\* the same with a platform that emits the events it owes: a recognition
\* that was started emits start or error, one that listens, stops or has
\* reported an error emits end, and the permission request is answered
SpecRecordLive ==
  /\ SpecRecord
  /\ WF_vars(RecStart)
  /\ WF_vars(RecEnd)
  /\ WF_vars(PermissionGranted)

\* the page while the user has text spoken
NextSay ==
  \/ TtsImported
  \/ SttImported
  \/ ImportFailed
  \/ \E t \in TypedTexts : SetText(t)
  \/ \E m \in {"tts", "stt"} : HandleModeChange(m)
  \/ ClickSpeak
  \/ SpeakImported
  \/ SpeakImportFailed
  \/ \E s \in Sessions : PlatformStart(s)
  \/ \E s \in Sessions : PlatformEnd(s)
  \/ \E s \in Sessions : PlatformError(s)

SpecSay == InitPage /\ [][NextSay]_vars

(***************************************************************************)
(* Specification of the options of speak and textToSpeech: calls with      *)
(* rates, pitches and volumes below, inside and above their ranges and     *)
(* with no voice, a voice of the platform and a voice it does not have, on *)
(* a platform that has loaded its voices or has not.                       *)
(***************************************************************************)
RateGrid == {0, 10, 150}
PitchGrid == {-10, 10, 30}
VolumeGrid == {-10, 5, 20}
VoiceGrid == {"", "Alice", "Carol"}

OptionGrid == [rate : RateGrid, pitch : PitchGrid, volume : VolumeGrid, voice : VoiceGrid]

SpeakWith(o) ==
  /\ nSess < MaxSess
  /\ SpeakOnWith(0, nSess + 1, <<"a">>, o)
  /\ UNCHANGED <<sttVars, ctlVars>>

InitOptions ==
  /\ \E voicesLoaded \in BOOLEAN : InitSynthesis(voicesLoaded)
  /\ InitSTT
  /\ InitCtl(TRUE, TRUE)

NextOptions ==
  \/ \E o \in OptionGrid : SpeakWith(o)
  \/ \E o \in OptionGrid : TextToSpeechWith(<<"a">>, o)
  \/ VoicesChanged
  \/ \E s \in Sessions : LoadTimeout(s)
  \/ \E s \in Sessions : TtsSubmit(s)

SpecOptions == InitOptions /\ [][NextOptions]_vars

(***************************************************************************)
(* Specification of the voice list: getAvailableVoices and textToSpeech    *)
(* called on a platform that may not have populated its voice list yet.    *)
(***************************************************************************)
NextVoices ==
  \/ GetAvailableVoices
  \/ \E s \in Sessions : VoicesReturn(s)
  \/ TextToSpeech(<<"a">>)
  \/ \E s \in Sessions : TtsSubmit(s)
  \/ VoicesChanged
  \/ \E s \in Sessions : LoadTimeout(s)
  \/ \E s \in Sessions : PlatformStart(s)
  \/ \E s \in Sessions : PlatformEnd(s)
  \/ \E s \in Sessions : PlatformError(s)

SpecVoices == InitOut /\ [][NextVoices]_vars

(***************************************************************************)
(* Specification of the transcript the page displays: the recording flow   *)
(* with transcripts that may themselves hold the characters "[" and "]".   *)
(***************************************************************************)
TranscriptTexts == {<<"a">>, <<"[", "a", "]">>}

TranscriptEvents == ResultEventsOver(TranscriptTexts)

NextTranscript ==
  \/ TtsImported
  \/ SttImported
  \/ \E m \in {"tts", "stt"} : HandleModeChange(m)
  \/ ClickRecord
  \/ PermissionGranted
  \/ ClickStop
  \/ RecStart
  \/ \E ev \in TranscriptEvents : RecResult(ev)
  \/ RecEnd

SpecTranscript == Init /\ [][NextTranscript]_vars

(***************************************************************************)
(* Specification of the handlers of Controls as functions: each may be     *)
(* called in every state, also where the page renders its button disabled. *)
(***************************************************************************)
NextHandlers ==
  \/ TtsImported
  \/ SttImported
  \/ ImportFailed
  \/ \E t \in TypedTexts : SetText(t)
  \/ \E m \in {"tts", "stt"} : HandleModeChange(m)
  \/ HandleTextToSpeech
  \/ SpeakImported
  \/ SpeakImportFailed
  \/ StartRecording
  \/ PermissionGranted
  \/ PermissionDenied
  \/ StopRecording
  \/ RecStart
  \/ RecEnd
  \/ \E s \in Sessions : PlatformStart(s)
  \/ \E s \in Sessions : PlatformEnd(s)

SpecHandlers == InitPage /\ [][NextHandlers]_vars

(***************************************************************************)
(* Claims about the output side.                                           *)
(***************************************************************************)
\* C1: a new output session cancels the earlier one before its utterance is
\* submitted, so at no time are two utterances pending or speaking in the
\* platform queue.
C1_NoOverlappingUtterances == Len(queue) <= 1

\* C2: every textToSpeech call gets exactly one terminal notification: once
\* the utterance has had its terminal event or the 30 s watchdog has run,
\* the promise is settled (and a settled promise is never settled again).
C2_ExactlyOneTerminalNotification ==
  \A s \in Sessions :
     (sKind[s] = "tts" /\ (uState[s] = "done" \/ timer[s] = "fired"))
        => Settled(promise[s])

\* C3: the watchdog of a session that completed normally is cleared: when its
\* 30 s elapse it makes no platform cancel (and so touches no later session).
C3_WatchdogClearedOnCompletion ==
  \A s \in Sessions :
     (lastOp[1] = "timeout" /\ lastOp[2] = s /\ promise[s] = "resolved")
        => lastOp[3] = "noop"

\* C4: when the 30 s of a session elapse without a terminal event, the
\* session is force-terminated (cancel called, active flag cleared) and the
\* caller is given the timeout outcome.
C4_TimeoutForceTerminates ==
  \A s \in Sessions :
     (lastOp[1] = "timeout" /\ lastOp[2] = s /\ uState[s] # "done"
        /\ promise[s] \notin {"resolved", "rejected"})
        => /\ lastOp[3] = "cancel"
           /\ promise[s] = "timeout"
           /\ ~isSpeaking[sWrapper[s]]
           /\ ~InSeq(queue, s)

(***************************************************************************)
(* Claims about the input side.                                            *)
(***************************************************************************)
\* C5: the promise of speechToText always settles, with or without an audio
\* blob: once the 30 s safety timeout of a call has run, its promise is
\* resolved or rejected.
C5_SpeechToTextSettles ==
  \A r \in RecSessions :
     (rKind[r] = "stt" /\ rTimer[r] = "fired")
        => rPromise[r].st \in {"resolved", "rejected"}

\* C6: with continuous=false the result event that brings the first final
\* segment makes the wrapper issue exactly one stop, whichever listener is
\* installed; with continuous=true, and at every other result event, no stop
\* is issued.
C6_StopAfterFirstFinal ==
  [][lastEvent' # <<>> =>
       stopCalls' = stopCalls +
          (IF ~recContinuous /\ ~finalEmitted /\ finalEmitted' THEN 1 ELSE 0)]_vars

\* C7: once the recognition has been told to stop, a result event the
\* platform still emits is not delivered to the caller and changes no
\* transcript.
C7_NoResultAfterStop ==
  [][(recState = "stopping" /\ lastEvent' # <<>>) =>
       (cbLog' = <<>> /\ text' = text /\ finalTranscript' = finalTranscript)]_vars

\* C8: a "no-speech" error ends the input session as a success with the
\* sentinel transcript, as the controller sees it: the sentinel text is
\* shown, no alert is raised and no promise is rejected.
C8_NoSpeechIsSuccess ==
  [][(recError # "no-speech" /\ recError' = "no-speech") =>
       /\ text' = NoSpeechText
       /\ alerts' = alerts
       /\ \A r \in RecSessions :
             rPromise'[r].st = "rejected" => rPromise[r].st = "rejected"]_vars

\* C9: a platform error other than "no-speech" reaches the caller: the error
\* callback is called with the code, or a promise of the session is rejected.
C9_ErrorReachesCaller ==
  [][(recError = "" /\ recError' \notin {"", "no-speech"}) =>
       \/ errLog' = recError'
       \/ \E r \in RecSessions :
             rPromise'[r].st = "rejected" /\ rPromise[r].st # "rejected"]_vars

(***************************************************************************)
(* Claims about the page.                                                  *)
(***************************************************************************)
\* C10: when the platform reports an error for the utterance of a "speak"
\* action, the page reports the failure to the user.
C10_SpeakErrorReported ==
  lastOp[1] = "error" => TtsFailedAlert \in alerts

\* C11: an output session started with empty text fails with an
\* invalid-argument error before any platform call: its utterance is never
\* submitted to the platform, and a textToSpeech promise is rejected.
C11_EmptyTextRejected ==
  \A s \in Sessions :
     (sKind[s] # "none" /\ sText[s] = <<>>)
        => /\ uState[s] = "none"
           /\ sKind[s] = "tts" => promise[s] = "rejected"

\* C12: when the probe found no recognition support, a call of startRecording
\* fails at once with the "not supported" alert: it requests no microphone
\* permission, the stub stays in place of a recognition object, nothing is
\* called on the input side and the recording flag keeps its value.
C12_NoSupportFailsAtOnce ==
  [][(~hasSTT /\ StartRecording) =>
       /\ NotSupportedAlert \in alerts'
       /\ permWait' = permWait /\ permWait = 0
       /\ sttRef' = "fallback"
       /\ sttVars' = sttVars
       /\ ctlIsRecording' = ctlIsRecording]_vars

\* a start was requested on a page without recognition support
C12_Witness == ~hasSTT /\ NotSupportedAlert \in alerts

\* C13: after the probe each reference of the controller is the real wrapper
\* only when its capability is present and the stub when it is absent, and
\* for an absent capability no speak or listen action reaches a platform
\* object: no utterance, no pending speakText call, no recognition session,
\* no permission request.
C13_StubForAbsentCapability ==
  /\ (ttsRef = "real" => hasTTS) /\ (~hasTTS => ttsRef = "fallback")
  /\ (sttRef = "real" => hasSTT) /\ (~hasSTT => sttRef = "fallback")
  /\ ~hasTTS => (nSess = 0 /\ queue = <<>> /\ speakWait = <<>>)
  /\ ~hasSTT => (nRec = 0 /\ recState = "idle" /\ permWait = 0 /\ ~ctlIsRecording)

\* a speak action was made on a page without synthesis and went to the stub,
\* while the reference of the present capability is the real wrapper
C13_Witness ==
  /\ ~hasTTS /\ FallbackSpeakAlert \in alerts
  /\ hasSTT /\ sttRef = "real"

\* C14: a start call made while the recognition of an earlier session is
\* active is rejected and changes nothing of that session: the installed
\* handlers, the recording flag, the recognition settings and the state of
\* the recognition stay as they were, and so does every other promise.
C14_SecondStartLeavesFirst ==
  [][(nRec' # nRec /\ recState # "idle") =>
       /\ rPromise'[nRec'].st = "rejected"
       /\ UNCHANGED <<hStart, hResult, hError, hEnd, isRecording, recContinuous,
                      recInterim, recState>>
       /\ \A r \in RecSessions : r # nRec' => rPromise'[r] = rPromise[r]]_vars

\* C15: after stop() on the shared wrapper returns, no utterance submitted
\* through that wrapper is pending or speaking, whatever its progress was.
C15_StopLeavesNothingQueued ==
  lastOp[1] = "stop" =>
     \A s \in Sessions :
        (sKind[s] # "none" /\ sWrapper[s] = 0) => uState[s] \notin {"pending", "speaking"}

\* C16: pause() and resume() on the shared wrapper call the platform only
\* while an utterance of that wrapper is pending or speaking; in every other
\* state they make no platform call.
C16_PauseResumeOnlyWhileActive ==
  (lastOp[1] \in {"pause", "resume"} /\ lastOp[3] = "platform") =>
     \E s \in Sessions :
        sKind[s] # "none" /\ sWrapper[s] = 0 /\ uState[s] \in {"pending", "speaking"}

\* C17: once a stopped recognition has emitted its end event, no promise of
\* speechToText is left pending: the terminal event settles the stopped
\* session.
C17_StopSettlesAtTerminalEvent ==
  [][(recState = "stopping" /\ recState' = "idle") =>
       \A r \in RecSessions : rKind[r] = "stt" => rPromise'[r].st # "pending"]_vars

(***************************************************************************)
(* C18: stopRecognition is idempotent.  Every call leaves the wrapper not  *)
(* recording, so a second call in a row finds nothing to do; a call issues *)
(* at most one platform stop; and a call on a wrapper that is not          *)
(* recording issues no platform stop and changes no state of the wrapper,  *)
(* of the recognition or of any session.                                   *)
(***************************************************************************)
C18_StopRecognitionIdempotent ==
  [][StopRecognition =>
       /\ ~isRecording'
       /\ stopCalls' \in {stopCalls, stopCalls + 1}
       /\ ~isRecording =>
            /\ stopCalls' = stopCalls
            /\ UNCHANGED <<isRecording, recState, rPromise, rKind, rTimer, rTimerQ,
                           finalTranscript, hasResult, hStart, hResult, hError, hEnd,
                           recContinuous, recInterim, finalEmitted, nResults>>]_vars

\* a stop was issued and the wrapper is no longer recording: the state in
\* which the second call of a row is made
C18_Witness ==
  /\ stopCalls > 0
  /\ ~isRecording
  /\ recState = "stopping"

(***************************************************************************)
(* C19: for every platform result event delivered to the listener that was *)
(* registered with onResult, the listener is called once per transcript    *)
(* segment of the event, in the segment order of the event, with the text  *)
(* and the final/interim flag of that segment.                             *)
(***************************************************************************)
C19_ListenerCalledPerSegment ==
  (lastEvent # <<>> /\ hResult < 0) =>
     cbLog = [i \in 1..Len(lastEvent) |-> <<lastEvent[i].text, lastEvent[i].final>>]

C21_FinalSegmentsAccumulate ==
  [][(/\ nResults' = nResults + 1
       /\ hResult = -2
       /\ cbLog # <<>>
       /\ cbLog[Len(cbLog)][2]) =>
       /\ Len(text') >= Len(text)
       /\ SubSeq(text', 1, Len(text)) = text]_vars

(***************************************************************************)
(* C22: whenever the controller is not recording, the displayed transcript *)
(* holds no bracketed interim text - after an explicit stop, a platform    *)
(* error, the platform's end of the session or a mode switch, and also     *)
(* when a result event arrives after the stop.                             *)
(***************************************************************************)
C22_NoInterimWhenNotRecording ==
  ~ctlIsRecording => \A i \in 1..Len(text) : text[i] # "["

(***************************************************************************)
(* C23: in both start paths (speechToText and startRecognition) the        *)
(* outcome that the error closure of the call hands to its caller for a    *)
(* platform error code is of the kind NoSpeechDetected for "no-speech",    *)
(* MicrophoneUnavailable for "audio-capture", PermissionDenied for         *)
(* "not-allowed" and Unknown, carrying the code, for every other code.     *)
(***************************************************************************)
C23_ErrorCodeMapsToKind ==
  [][(recState # "errored" /\ recState' = "errored" /\ hError > 0) =>
       LET c == recError'
           out == IF rKind[hError] = "stt" THEN SttErrorOutcome(c) ELSE RecErrorOutcome(c)
           kind == IF out.st = "resolved" /\ out.tag = "No speech detected"
                     THEN "NoSpeechDetected"
                   ELSE IF out.st = "rejected" /\ out.tag = "No microphone found"
                     THEN "MicrophoneUnavailable"
                   ELSE IF out.st = "rejected" /\ out.tag = "Microphone permission denied"
                     THEN "PermissionDenied"
                   ELSE IF out.st = "rejected" /\ out.tag = "Speech recognition error: " \o c
                     THEN "Unknown"
                   ELSE "none"
       IN kind = (IF c = "no-speech" THEN "NoSpeechDetected"
                  ELSE IF c = "audio-capture" THEN "MicrophoneUnavailable"
                  ELSE IF c = "not-allowed" THEN "PermissionDenied"
                  ELSE "Unknown")]_vars

(***************************************************************************)
(* C24: whenever microphone access is refused - the permission request of  *)
(* startRecording is denied, or the platform reports "not-allowed" while   *)
(* the recognition is starting - the page shows a permission message and   *)
(* not the generic failure message, and the recording flag is false        *)
(* afterwards.                                                             *)
(***************************************************************************)
C24_PermissionRefusalHasOwnMessage ==
  [][( \/ (permWait' = permWait - 1 /\ nRec' = nRec /\ sttRef = "real")
       \/ (recState = "starting" /\ recState' = "errored" /\ recError' = "not-allowed") ) =>
       /\ alerts' \ alerts \subseteq {MicRequiredAlert, CtlErrorAlert("not-allowed")}
       /\ alerts' \cap {MicRequiredAlert, CtlErrorAlert("not-allowed")} # {}
       /\ ~ctlIsRecording']_vars

(***************************************************************************)
(* C25: for every rate, pitch and volume given to speak or textToSpeech    *)
(* (values below, inside and above each range), the value set on the       *)
(* utterance is the input clamped into the range - rate [0.1, 10], pitch   *)
(* [0, 2], volume [0, 1], here in tenths - and the call does not fail: the *)
(* utterance is submitted.                                                 *)
(***************************************************************************)
C25_OptionsClamped ==
  \A s \in Sessions :
     uState[s] \in {"pending", "speaking"} =>
        /\ uProps[s].rate = (IF sOptions[s].rate < 1 THEN 1
                             ELSE IF sOptions[s].rate > 100 THEN 100
                             ELSE sOptions[s].rate)
        /\ uProps[s].pitch = (IF sOptions[s].pitch < 0 THEN 0
                              ELSE IF sOptions[s].pitch > 20 THEN 20
                              ELSE sOptions[s].pitch)
        /\ uProps[s].volume = (IF sOptions[s].volume < 0 THEN 0
                               ELSE IF sOptions[s].volume > 10 THEN 10
                               ELSE sOptions[s].volume)
        /\ promise[s] # "rejected"

\* a speak call with every value above its range and a textToSpeech call
\* with every value below it have both submitted their utterances
C25_Witness ==
  /\ sKind[1] = "speak" /\ uState[1] = "pending"
  /\ sOptions[1].rate = 150 /\ sOptions[1].pitch = 30 /\ sOptions[1].volume = 20
  /\ sKind[2] = "tts" /\ uState[2] = "pending"
  /\ sOptions[2].rate = 0 /\ sOptions[2].pitch = -10 /\ sOptions[2].volume = -10

(***************************************************************************)
(* C26: when speak or textToSpeech creates its utterance, the voice of the *)
(* utterance is the voice of the platform whose name is the requested      *)
(* identifier if the platform has such a voice at that moment, and is left *)
(* unset (the platform default) if it has none or no identifier was given; *)
(* the utterance is submitted in every case.                               *)
(***************************************************************************)
C26_VoiceResolvedOrDefault ==
  [][\A s \in Sessions :
        (uState[s] # "pending" /\ uState'[s] = "pending") =>
           /\ uProps'[s].voice =
                (IF voices /\ sOptions'[s].voice \in PlatformVoices
                   THEN sOptions'[s].voice
                   ELSE "")
           /\ promise'[s] # "rejected"]_vars

\* one utterance was given a voice the platform has, the other a voice it
\* does not have
C26_Witness ==
  /\ uState[1] = "pending" /\ sOptions[1].voice = "Alice" /\ uProps[1].voice = "Alice"
  /\ uState[2] = "pending" /\ sOptions[2].voice = "Carol" /\ uProps[2].voice = ""

(***************************************************************************)
(* C27: getAvailableVoices returns at once when the voice list is not      *)
(* empty, and otherwise as soon as the platform signals a change of the    *)
(* voice list or the 1 second wait is over, whichever is first: no call    *)
(* is still waiting once the platform has populated the voice list.        *)
(***************************************************************************)
C27_VoicesReturnOnChange ==
  \A s \in Sessions :
     (sKind[s] = "voices" /\ uState[s] = "waiting") => ~voices

(***************************************************************************)
(* C28: for the shared TextToSpeech wrapper, whenever an utterance that    *)
(* was submitted through it is speaking, isSpeakingActive() is true and    *)
(* currentUtterance is that utterance.                                     *)
(***************************************************************************)
C28_SpeakingFlagTracksUtterance ==
  \A s \in Sessions :
     (sKind[s] \in {"speak", "tts"} /\ sWrapper[s] = 0 /\ uState[s] = "speaking") =>
        (isSpeaking[0] /\ currentUtterance[0] = s)

(***************************************************************************)
(* C29: isRecordingActive() is true only while the platform recognition    *)
(* is running: once the platform has emitted the end event of a session,   *)
(* started by speechToText or by startRecognition, and the recognition is  *)
(* idle, isRecordingActive() is false.                                     *)
(***************************************************************************)
C29_NotRecordingAfterEnd ==
  recState = "idle" => ~isRecording

(***************************************************************************)
(* C30: whenever the recognition behind the controller has terminated      *)
(* while the controller's isRecording flag is still true (the platform     *)
(* emitted an error or an end event after recording had started, without a *)
(* stop by the user), the flag eventually becomes false.                   *)
(***************************************************************************)
C30_RecordingFlagEventuallyFalse ==
  (ctlIsRecording /\ recState \in {"errored", "idle"}) ~> ~ctlIsRecording

(***************************************************************************)
(* C31: for every interleaving of clicks on the record button with the     *)
(* permission check and the platform events, at most one recognition start *)
(* is issued per recording session: startRecording does not call           *)
(* startRecognition while the recognition of an earlier click is still     *)
(* active.  (The claim's second part, that isRecording is true while that  *)
(* recognition is active, rests on this.)                                  *)
(***************************************************************************)
C31_OneStartPerSession ==
  [][nRec' = nRec + 1 => recState \notin {"starting", "listening", "stopping"}]_vars

(***************************************************************************)
(* C32: after the user has switched the mode, no session of the mode just  *)
(* left remains active.  Leaving the mode "tts": no utterance started by   *)
(* the speak action is pending or speaking any more.  Leaving the mode     *)
(* "stt": the recognition is neither starting nor listening and the        *)
(* recording flag is false.                                                *)
(***************************************************************************)
C32_ModeSwitchEndsSessions ==
  [][/\ (mode = "tts" /\ mode' = "stt") =>
          \A s \in Sessions : uState'[s] \notin {"pending", "speaking"}
     /\ (mode = "stt" /\ mode' = "tts") =>
          (recState' \notin {"starting", "listening"} /\ ~ctlIsRecording')]_vars

====
